---- MODULE Spec2Model ----
(***************************************************************************)
(* Stock Transfer Tracker (src/TransferTracker.py).                        *)
(*                                                                         *)
(* The program is a script that the hosting framework runs from top to     *)
(* bottom on every user interaction (a "render pass").  The state that     *)
(* outlives a pass is st.session_state.transfer_rows and the three         *)
(* spreadsheet files.  A pass is modelled by the program counter pc, one   *)
(* action per block of the script, taken in the script's order.            *)
(*                                                                         *)
(* Python strings are sequences of one-character strings, so that          *)
(* concatenation, `in`, split and sorted() are computed and not assumed.   *)
(* Python lists are sequences; a list index i of the source is i + 1 here. *)
(***************************************************************************)
EXTENDS Integers, Sequences, FiniteSets, TLC

VARIABLES
    stock_on_hand_file,   \* data/book1.xlsx
    catalogue_file,       \* data/CATALOGUE.xlsx
    transfers_file,       \* data/stock_transfers.xlsx
    locations_list,       \* module global, line 110
    all_parts,            \* module global, line 112
    transfer_rows,        \* st.session_state.transfer_rows
    rows_to_delete,       \* line 126
    idx,                  \* loop variable of line 129 (0-based, as in the source)
    messages,             \* st.error / st.warning / st.success calls of this pass
    displayed,            \* what lines 186-191 showed in this pass
    pc                    \* position of the script

vars == <<stock_on_hand_file, catalogue_file, transfers_file, locations_list,
          all_parts, transfer_rows, rows_to_delete, idx, messages, displayed, pc>>

-----------------------------------------------------------------------------
(* Bounds of the model. *)

\* Longest draft list a pass may leave behind.
MaxRows == 2

\* Most records the log may hold in a session.
MaxLog == 1

\* Longest draft list handed to save_transfers / the deletion loop when they
\* are checked as functions of their arguments.
MaxDraft == 3

\* Longest ItemCode / ItemName cell when the label round trip is checked.
MaxStrLen == 3

-----------------------------------------------------------------------------
(* Python values. *)

\* None (the default of add_row's parameters).
None == <<"None">>

\* A missing cell as pandas reads it (NaN): a value that is no string.
NaN == <<"NaN">>

\* Python's "" .
EmptyStr == <<>>

\* The separator of the combined label, " - " (lines 44, 73, 74).
SEP == <<" ", "-", " ">>

\* ord() of the characters the model uses.
Ord(c) ==
    CASE c = " " -> 32
      [] c = "-" -> 45
      [] c = "A" -> 65
      [] c = "B" -> 66
      [] c = "a" -> 97
      [] c = "n" -> 110

Min(a, b) == IF a < b THEN a ELSE b

\* Python's s < t on strings: lexicographic by code point.
StrLess(s, t) ==
    \/ \E k \in 1..Min(Len(s), Len(t)) :
          /\ \A j \in 1..(k - 1) : s[j] = t[j]
          /\ Ord(s[k]) < Ord(t[k])
    \/ /\ Len(s) < Len(t)
       /\ \A j \in 1..Len(s) : s[j] = t[j]

\* Python truthiness of a parameter that is None or a string.
Truthy(v) == v # None /\ v # EmptyStr

\* sep in s
Contains(s, sep) ==
    \E i \in 1..(Len(s) - Len(sep) + 1) : SubSeq(s, i, i + Len(sep) - 1) = sep

\* Position (1-based) of the first occurrence of sep in s; 0 when there is none.
Find(s, sep) ==
    IF Contains(s, sep)
    THEN CHOOSE i \in 1..(Len(s) - Len(sep) + 1) :
            /\ SubSeq(s, i, i + Len(sep) - 1) = sep
            /\ \A j \in 1..(i - 1) : SubSeq(s, j, j + Len(sep) - 1) # sep
    ELSE 0

\* Mutant of Split1: the split is on the last occurrence (rsplit).
rsplit1(s, sep) ==
    LET i == CHOOSE k \in 1..(Len(s) - Len(sep) + 1) :
                /\ SubSeq(s, k, k + Len(sep) - 1) = sep
                /\ \A j \in (k + 1)..(Len(s) - Len(sep) + 1) :
                      SubSeq(s, j, j + Len(sep) - 1) # sep
    IN  <<SubSeq(s, 1, i - 1), SubSeq(s, i + Len(sep), Len(s))>>

\* s.split(sep, 1) for an s that contains sep: the text before the first
\* occurrence and the text after it.
Split1(s, sep) ==
    LET i == Find(s, sep)
    IN  <<SubSeq(s, 1, i - 1), SubSeq(s, i + Len(sep), Len(s))>>

\* Series.astype(str) on one cell: a text cell is itself, a missing cell is
\* the text "nan".
astype_str(cell) == IF cell = NaN THEN <<"n", "a", "n">> ELSE cell

\* Series.dropna()
dropna(col) == SelectSeq(col, LAMBDA v : v # NaN)

\* Series.unique(): the values in order of first appearance.
RECURSIVE unique(_)
unique(col) ==
    IF col = <<>> THEN <<>>
    ELSE LET init == unique(SubSeq(col, 1, Len(col) - 1))
             last == col[Len(col)]
         IN  IF \E i \in 1..Len(init) : init[i] = last
             THEN init
             ELSE Append(init, last)

\* Insert v into the ascending list s, after the elements not greater than it.
RECURSIVE InsertSorted(_, _)
InsertSorted(s, v) ==
    IF s = <<>> THEN <<v>>
    ELSE IF StrLess(v, s[1]) THEN <<v>> \o s
    ELSE <<s[1]>> \o InsertSorted(Tail(s), v)

\* sorted(list of strings)
RECURSIVE sorted(_)
sorted(s) ==
    IF s = <<>> THEN <<>>
    ELSE InsertSorted(sorted(SubSeq(s, 1, Len(s) - 1)), s[Len(s)])

\* sorted(list of ints, reverse=True)
RECURSIVE sorted_reverse(_)
sorted_reverse(s) ==
    IF s = <<>> THEN <<>>
    ELSE LET m == CHOOSE i \in 1..Len(s) : \A j \in 1..Len(s) : s[j] <= s[i]
         IN  <<s[m]>> \o sorted_reverse(SubSeq(s, 1, m - 1) \o SubSeq(s, m + 1, Len(s)))

-----------------------------------------------------------------------------
(* Functions of the script. *)

\* load_locations, lines 25-34: the sorted distinct non-null locations, or
\* the halt of st.stop().
load_locations(file) ==
    IF ~file.exists THEN [stop |-> TRUE, value |-> <<>>]
    ELSE IF "Bin Location Description" \notin file.columns
    THEN [stop |-> TRUE, value |-> <<>>]
    ELSE [stop |-> FALSE, value |-> sorted(unique(dropna(file.bin)))]

\* Mutant of load_parts: `and` for the `or` of line 41.
load_parts_and(file) ==
    IF ~file.exists THEN [stop |-> TRUE, value |-> <<>>]
    ELSE IF "ItemCode" \notin file.columns /\ "ItemName" \notin file.columns
    THEN [stop |-> TRUE, value |-> <<>>]
    ELSE [stop |-> FALSE,
          value |-> [i \in 1..Len(file.parts) |->
                        astype_str(file.parts[i].ItemCode) \o SEP
                            \o astype_str(file.parts[i].ItemName)]]

\* load_parts, lines 36-45: the Combined column, or the halt of st.stop().
load_parts(file) ==
    IF ~file.exists THEN [stop |-> TRUE, value |-> <<>>]
    ELSE IF "ItemCode" \notin file.columns \/ "ItemName" \notin file.columns
    THEN [stop |-> TRUE, value |-> <<>>]
    ELSE [stop |-> FALSE,
          value |-> [i \in 1..Len(file.parts) |->
                        astype_str(file.parts[i].ItemCode) \o SEP
                            \o astype_str(file.parts[i].ItemName)]]

\* Mutant of add_row: the previous row's locations are ignored.
add_row_ignore_prev(rows, locs, prev_from, prev_to) ==
    Append(rows, [item_selected |-> EmptyStr,
                  quantity      |-> 0,
                  from_location |-> locs[1],
                  to_location   |-> locs[1]])

\* add_row, lines 47-54 (called with a non-empty locations list).
add_row(rows, locs, prev_from, prev_to) ==
    Append(rows, [item_selected |-> EmptyStr,
                  quantity      |-> 0,
                  from_location |-> IF Truthy(prev_from) THEN prev_from ELSE locs[1],
                  to_location   |-> IF Truthy(prev_to) THEN prev_to ELSE locs[1]])

\* delete_row, lines 56-58.
delete_row(rows, i) ==
    IF 0 <= i /\ i < Len(rows)
    THEN SubSeq(rows, 1, i) \o SubSeq(rows, i + 2, Len(rows))
    ELSE rows

\* The record of one draft row, lines 73-86.
make_record(row, now) ==
    LET selected_text == row.item_selected
        parts == IF Contains(selected_text, SEP)
                 THEN Split1(selected_text, SEP)
                 ELSE <<selected_text, EmptyStr>>
    IN  [Date             |-> now.date,
         Time             |-> now.time,
         ItemNo           |-> parts[1],
         ItemDescription  |-> parts[2],
         Quantity         |-> row.quantity,
         FromLocation     |-> row.from_location,
         ToLocation       |-> row.to_location]

\* Mutant of row_is_valid: `or` for the `and` of line 72.
row_is_valid_or(row) == row.item_selected # EmptyStr \/ row.quantity > 0

\* The filter of line 72.
row_is_valid(row) == row.item_selected # EmptyStr /\ row.quantity > 0

\* The loop of lines 66-86.
RECURSIVE build_records(_, _)
build_records(rows, now) ==
    IF rows = <<>> THEN <<>>
    ELSE LET rest == build_records(Tail(rows), now)
         IN  IF row_is_valid(rows[1])
             THEN <<make_record(rows[1], now)>> \o rest
             ELSE rest

\* Mutant of save_transfers: the existing log is not read back (line 98 taken
\* in both cases).
save_transfers_overwrite(rows, file, now) ==
    IF rows = <<>> THEN [file |-> file, warned |-> FALSE]
    ELSE LET records == build_records(rows, now)
         IN  IF records = <<>> THEN [file |-> file, warned |-> TRUE]
             ELSE [file   |-> [exists |-> TRUE, rows |-> records],
                   warned |-> FALSE]

\* save_transfers, lines 60-100: the file it leaves and whether it warned.
\* The file is the sheet's rows; pd.read_excel followed by to_excel writes
\* the rows it read back as they were.
save_transfers(rows, file, now) ==
    IF rows = <<>> THEN [file |-> file, warned |-> FALSE]
    ELSE LET records == build_records(rows, now)
         IN  IF records = <<>> THEN [file |-> file, warned |-> TRUE]
             ELSE [file   |-> [exists |-> TRUE,
                               rows   |-> (IF file.exists THEN file.rows ELSE <<>>)
                                              \o records],
                   warned |-> FALSE]

\* Mutants of last_row_has_item_selected: the first row is tested; the
\* quantity is tested.
first_row_has_item_selected(rows) ==
    IF rows = <<>> THEN FALSE
    ELSE rows[1].item_selected # EmptyStr

last_row_has_quantity(rows) ==
    IF rows = <<>> THEN FALSE
    ELSE rows[Len(rows)].quantity # 0

\* last_row_has_item_selected, lines 102-106.
last_row_has_item_selected(rows) ==
    IF rows = <<>> THEN FALSE
    ELSE rows[Len(rows)].item_selected # EmptyStr

\* The deletion loop, lines 168-169, over a list of indices.
RECURSIVE delete_each(_, _)
delete_each(rows, order) ==
    IF order = <<>> THEN rows
    ELSE delete_each(delete_row(rows, order[1]), Tail(order))

\* Mutant of handle_deletion: the indices are taken in the order pressed.
handle_deletion_ascending(rows, to_delete) == delete_each(rows, to_delete)

handle_deletion(rows, to_delete) == delete_each(rows, sorted_reverse(to_delete))

-----------------------------------------------------------------------------
(* The files the program may find, and the user's inputs. *)

StockFiles ==
    { [exists |-> FALSE, columns |-> {}, bin |-> <<>>],
      [exists |-> TRUE, columns |-> {"Qty"}, bin |-> <<>>],
      [exists |-> TRUE, columns |-> {"Bin Location Description"},
       bin |-> <<NaN>>],
      [exists |-> TRUE, columns |-> {"Bin Location Description"},
       bin |-> <<<<"B">>, NaN, <<"A">>, <<"B">>>>] }

CatalogueFiles ==
    { [exists |-> FALSE, columns |-> {}, parts |-> <<>>],
      [exists |-> TRUE, columns |-> {"ItemCode"}, parts |-> <<>>],
      [exists |-> TRUE, columns |-> {"ItemCode", "ItemName"},
       parts |-> <<[ItemCode |-> <<"A">>, ItemName |-> <<"B">>]>>] }

\* A record written by an earlier session.
OldRecord ==
    [Date |-> "2024-05-01", Time |-> "17:00:00", ItemNo |-> <<"B">>,
     ItemDescription |-> <<"A">>, Quantity |-> 1,
     FromLocation |-> <<"B">>, ToLocation |-> <<"A">>]

NoFile == [exists |-> FALSE, rows |-> <<>>]

TransferFiles == { NoFile, [exists |-> TRUE, rows |-> <<OldRecord>>] }

\* datetime.now(local_timezone), line 64, with its two strftime results.
Nows == { [date |-> "2024-05-02", time |-> "09:30:00"] }

\* Values st.number_input(min_value=0) may return.
Quantities == {0, 1}

Elems(s) == { s[i] : i \in 1..Len(s) }

-----------------------------------------------------------------------------
(* The render pass. *)

Init ==
    /\ stock_on_hand_file \in StockFiles
    /\ catalogue_file \in CatalogueFiles
    /\ transfers_file \in TransferFiles
    /\ locations_list = <<>>
    /\ all_parts = <<>>
    /\ transfer_rows = <<>>
    /\ rows_to_delete = <<>>
    /\ idx = 0
    /\ messages = {}
    /\ displayed = "none"
    /\ pc = "load"

\* Lines 110-112. A halt of st.stop() ends the pass.
LoadData ==
    /\ pc = "load"
    /\ LET locs == load_locations(stock_on_hand_file)
           parts == load_parts(catalogue_file)
       IN  IF locs.stop
           THEN /\ messages' = messages \cup {"error"}
                /\ pc' = "stopped"
                /\ UNCHANGED <<locations_list, all_parts>>
           ELSE IF parts.stop
           THEN /\ locations_list' = locs.value
                /\ messages' = messages \cup {"error"}
                /\ pc' = "stopped"
                /\ UNCHANGED all_parts
           ELSE /\ locations_list' = locs.value
                /\ all_parts' = parts.value
                /\ pc' = "session"
                /\ UNCHANGED messages
    /\ UNCHANGED <<stock_on_hand_file, catalogue_file, transfers_file,
                   transfer_rows, rows_to_delete, idx, displayed>>

\* Lines 115-126. add_row on an empty locations list raises IndexError.
SessionState ==
    /\ pc = "session"
    /\ IF Len(transfer_rows) = 0
       THEN IF locations_list = <<>>
            THEN /\ pc' = "raised"
                 /\ UNCHANGED transfer_rows
            ELSE /\ transfer_rows' = add_row(transfer_rows, locations_list, None, None)
                 /\ pc' = "form"
       ELSE /\ pc' = "form"
            /\ UNCHANGED transfer_rows
    /\ rows_to_delete' = <<>>
    /\ idx' = 0
    /\ UNCHANGED <<stock_on_hand_file, catalogue_file, transfers_file,
                   locations_list, all_parts, messages, displayed>>

\* One iteration of the loop of lines 129-165: the four widgets of row idx
\* return what the user chose, and its delete button whether it was pressed.
\* A widget returns the value kept under its key or, without one, the
\* option at `index` (the row's value): in either case one of its options.
\* Presses made before a pass starts reach it together, so several buttons
\* can be pressed in one pass (rows_to_delete is a list for that reason).
RenderRow ==
    /\ pc = "form"
    /\ idx < Len(transfer_rows)
    /\ \E to_loc \in Elems(locations_list), from_loc \in Elems(locations_list),
          selection \in {EmptyStr} \cup Elems(all_parts),
          quantity \in Quantities, pressed \in BOOLEAN :
          /\ transfer_rows' = [transfer_rows EXCEPT ![idx + 1] =
                                  [item_selected |-> selection,
                                   quantity      |-> quantity,
                                   from_location |-> from_loc,
                                   to_location   |-> to_loc]]
          /\ rows_to_delete' = IF pressed THEN Append(rows_to_delete, idx)
                               ELSE rows_to_delete
    /\ idx' = idx + 1
    /\ UNCHANGED <<stock_on_hand_file, catalogue_file, transfers_file,
                   locations_list, all_parts, messages, displayed, pc>>

\* Lines 167-169, once the loop of line 129 is over.
HandleDeletion ==
    /\ pc = "form"
    /\ idx = Len(transfer_rows)
    /\ transfer_rows' = handle_deletion(transfer_rows, rows_to_delete)
    /\ pc' = "autoadd"
    /\ UNCHANGED <<stock_on_hand_file, catalogue_file, transfers_file,
                   locations_list, all_parts, rows_to_delete, idx, messages,
                   displayed>>

\* Lines 173-176.
AutoAdd ==
    /\ pc = "autoadd"
    /\ IF last_row_has_item_selected(transfer_rows)
       THEN /\ Len(transfer_rows) < MaxRows
            /\ LET last_row == transfer_rows[Len(transfer_rows)]
               IN  transfer_rows' = add_row(transfer_rows, locations_list,
                                            last_row.from_location,
                                            last_row.to_location)
       ELSE UNCHANGED transfer_rows
    /\ pc' = "submit"
    /\ UNCHANGED <<stock_on_hand_file, catalogue_file, transfers_file,
                   locations_list, all_parts, rows_to_delete, idx, messages,
                   displayed>>

\* Mutant of Press: line 181 is missing, the list is not cleared.
Press_keep_rows(limit) ==
    /\ pc = "submit"
    /\ \E now \in Nows :
          LET saved == save_transfers(transfer_rows, transfers_file, now)
          IN  /\ Len(saved.file.rows) <= limit
              /\ transfers_file' = saved.file
              /\ messages' = messages \cup (IF saved.warned THEN {"warning"} ELSE {})
                                      \cup {"success"}
    /\ Len(transfer_rows) < MaxRows
    /\ transfer_rows' = add_row(transfer_rows, locations_list, None, None)
    /\ pc' = "display"
    /\ UNCHANGED <<stock_on_hand_file, catalogue_file, locations_list, all_parts,
                   rows_to_delete, idx, displayed>>

\* Lines 178-183, the submit button pressed; the log holds at most limit
\* records afterwards.
Press(limit) ==
    /\ pc = "submit"
    /\ \E now \in Nows :
          LET saved == save_transfers(transfer_rows, transfers_file, now)
          IN  /\ Len(saved.file.rows) <= limit
              /\ transfers_file' = saved.file
              /\ messages' = messages \cup (IF saved.warned THEN {"warning"} ELSE {})
                                      \cup {"success"}
    /\ transfer_rows' = add_row(<<>>, locations_list, None, None)
    /\ pc' = "display"
    /\ UNCHANGED <<stock_on_hand_file, catalogue_file, locations_list, all_parts,
                   rows_to_delete, idx, displayed>>

Submit == Press(MaxLog)

\* Line 179, the submit button not pressed.
NoSubmit ==
    /\ pc = "submit"
    /\ pc' = "display"
    /\ UNCHANGED <<stock_on_hand_file, catalogue_file, transfers_file,
                   locations_list, all_parts, transfer_rows, rows_to_delete, idx,
                   messages, displayed>>

\* Lines 185-191.
DisplayPast ==
    /\ pc = "display"
    /\ displayed' = IF transfers_file.exists THEN "last10" ELSE "info"
    /\ pc' = "done"
    /\ UNCHANGED <<stock_on_hand_file, catalogue_file, transfers_file,
                   locations_list, all_parts, transfer_rows, rows_to_delete, idx,
                   messages>>

\* The next interaction runs the script again; the session state and the
\* files are what the last pass left.
Rerun ==
    /\ pc \in {"done", "stopped", "raised"}
    /\ pc' = "load"
    /\ messages' = {}
    /\ displayed' = "none"
    /\ rows_to_delete' = <<>>
    /\ idx' = 0
    /\ UNCHANGED <<stock_on_hand_file, catalogue_file, transfers_file,
                   locations_list, all_parts, transfer_rows>>

Next ==
    \/ LoadData
    \/ SessionState
    \/ RenderRow
    \/ HandleDeletion
    \/ AutoAdd
    \/ Submit
    \/ NoSubmit
    \/ DisplayPast
    \/ Rerun

Spec == Init /\ [][Next]_vars

-----------------------------------------------------------------------------
(* save_transfers, the deletion loop and the label, each on the inputs the *)
(* form can hand it.                                                       *)

GoodStock ==
    CHOOSE f \in StockFiles : ~load_locations(f).stop /\ load_locations(f).value # <<>>

GoodCatalogue == CHOOSE f \in CatalogueFiles : ~load_parts(f).stop

\* The rows the widgets of lines 135-162 can leave.
DraftRows ==
    [item_selected : {EmptyStr} \cup Elems(load_parts(GoodCatalogue).value),
     quantity      : Quantities,
     from_location : Elems(load_locations(GoodStock).value),
     to_location   : Elems(load_locations(GoodStock).value)]

DraftLists(n) == UNION { [1..k -> DraftRows] : k \in 0..n }

\* The positions of S in ascending order, as the loop of line 129 appends them.
RECURSIVE Ascending(_)
Ascending(S) ==
    IF S = {} THEN <<>>
    ELSE LET m == CHOOSE x \in S : \A y \in S : x <= y
         IN  <<m>> \o Ascending(S \ {m})

\* A pass that has reached line 178 with any draft list the auto-add step
\* can leave, beside any log.
InitSave ==
    /\ stock_on_hand_file = GoodStock
    /\ catalogue_file = GoodCatalogue
    /\ transfers_file \in TransferFiles
    /\ locations_list = load_locations(GoodStock).value
    /\ all_parts = load_parts(GoodCatalogue).value
    /\ transfer_rows \in { l \in DraftLists(MaxDraft) : ~last_row_has_item_selected(l) }
    /\ rows_to_delete = <<>>
    /\ idx = Len(transfer_rows)
    /\ messages = {}
    /\ displayed = "none"
    /\ pc = "submit"

SubmitAny == Press(MaxDraft + Len(transfers_file.rows))

NextSave ==
    \/ SubmitAny
    \/ NoSubmit
    \/ DisplayPast

SpecSave == InitSave /\ [][NextSave]_vars

\* A pass that has reached line 167 with any draft list and any delete
\* buttons pressed.
InitDelete ==
    /\ stock_on_hand_file = GoodStock
    /\ catalogue_file = GoodCatalogue
    /\ transfers_file = NoFile
    /\ locations_list = load_locations(GoodStock).value
    /\ all_parts = load_parts(GoodCatalogue).value
    /\ transfer_rows \in DraftLists(MaxDraft) \ {<<>>}
    /\ rows_to_delete \in { Ascending(S) : S \in SUBSET (0..(Len(transfer_rows) - 1)) }
    /\ idx = Len(transfer_rows)
    /\ messages = {}
    /\ displayed = "none"
    /\ pc = "form"

NextDelete == HandleDeletion

SpecDelete == InitDelete /\ [][NextDelete]_vars

\* The characters of ItemCode and ItemName cells.
Chars == {"A", " ", "-"}

Strs(n) == UNION { [1..k -> Chars] : k \in 0..n }

Cells == Strs(MaxStrLen) \cup {NaN}

\* A catalogue of one part, with any code and any name.
InitLabel ==
    /\ stock_on_hand_file = GoodStock
    /\ \E c \in Cells, n \in Cells :
          catalogue_file = [exists |-> TRUE, columns |-> {"ItemCode", "ItemName"},
                            parts |-> <<[ItemCode |-> c, ItemName |-> n]>>]
    /\ transfers_file = NoFile
    /\ locations_list = <<>>
    /\ all_parts = <<>>
    /\ transfer_rows = <<>>
    /\ rows_to_delete = <<>>
    /\ idx = 0
    /\ messages = {}
    /\ displayed = "none"
    /\ pc = "load"

\* Lines 115-176 of a first pass in which the user picks a label and a
\* quantity of 1 in the one row: the row is added, filled, and followed by
\* the auto-added row.  The label is the part's combined label or, as in a
\* hand-made row, the part's code alone.
FillOneRow ==
    /\ pc = "session"
    /\ transfer_rows = <<>>
    /\ \E selection \in Elems(all_parts)
                          \cup { astype_str(catalogue_file.parts[1].ItemCode) } :
          LET added == add_row(transfer_rows, locations_list, None, None)
              filled == [added EXCEPT ![1].item_selected = selection,
                                      ![1].quantity = 1]
          IN  /\ selection # EmptyStr
              /\ transfer_rows' = add_row(filled, locations_list,
                                          filled[1].from_location,
                                          filled[1].to_location)
    /\ idx' = 1
    /\ pc' = "submit"
    /\ UNCHANGED <<stock_on_hand_file, catalogue_file, transfers_file,
                   locations_list, all_parts, rows_to_delete, messages, displayed>>

NextLabel ==
    \/ LoadData
    \/ FillOneRow
    \/ Submit
    \/ DisplayPast

SpecLabel == InitLabel /\ [][NextLabel]_vars

-----------------------------------------------------------------------------
(* Vocabulary of the properties, stated on the files and the draft list    *)
(* and not through the functions of the script.                            *)

\* A blank draft row.
Blank(from, to) ==
    [item_selected |-> EmptyStr, quantity |-> 0,
     from_location |-> from, to_location |-> to]

\* The non-null values of the location column.
KnownLocations ==
    { stock_on_hand_file.bin[i] : i \in 1..Len(stock_on_hand_file.bin) } \ {NaN}

\* The first location of the sorted location list: the least known location.
FirstLocation ==
    CHOOSE v \in KnownLocations : \A w \in KnownLocations : w = v \/ StrLess(v, w)

\* The positions of the rows with a non-empty selection and a quantity > 0.
ValidIdx(rows) ==
    { i \in 1..Len(rows) : rows[i].item_selected # EmptyStr /\ rows[i].quantity > 0 }

\* The records of the log before a step (none when there is no file).
OldRows == IF transfers_file.exists THEN transfers_file.rows ELSE <<>>

\* rec is the record of the draft row: its quantity and locations, and its
\* label split into code and description.
FromRow(rec, row) ==
    /\ rec.Quantity = row.quantity
    /\ rec.FromLocation = row.from_location
    /\ rec.ToLocation = row.to_location
    /\ \/ rec.ItemNo \o SEP \o rec.ItemDescription = row.item_selected
       \/ rec.ItemNo = row.item_selected /\ rec.ItemDescription = EmptyStr

\* The step in which the submit handler of lines 179-183 runs.
SubmitStep == pc = "submit" /\ "success" \in messages'

\* The last row of a non-empty draft list.
LastRow == transfer_rows[Len(transfer_rows)]

\* A required file or column is missing.
ReferenceDataMissing ==
    \/ ~stock_on_hand_file.exists
    \/ "Bin Location Description" \notin stock_on_hand_file.columns
    \/ ~catalogue_file.exists
    \/ "ItemCode" \notin catalogue_file.columns
    \/ "ItemName" \notin catalogue_file.columns

-----------------------------------------------------------------------------
(* The claims. *)

\* C1: every record a submit adds to the log is the record of a draft row
\* that, when submit ran, had a non-empty part selection and a quantity
\* greater than 0; a row with an empty selection or quantity 0 is never
\* written.
C1_OnlyValidRowsPersisted ==
    [][SubmitStep =>
          \A k \in (Len(OldRows) + 1)..Len(transfers_file'.rows) :
              \E i \in ValidIdx(transfer_rows) :
                  FromRow(transfers_file'.rows[k], transfer_rows[i])]_vars

\* C1 witness: a submit has written a record (of quantity 1) in a pass whose
\* draft list, as always in the form, ended with a row that is not written.
C1_Witness ==
    /\ pc = "display"
    /\ "success" \in messages
    /\ Len(transfers_file.rows) = 1
    /\ transfers_file.rows[1].Quantity = 1
    /\ transfers_file.rows[1].FromLocation # transfers_file.rows[1].ToLocation

\* C2: a submit with N >= 1 valid rows leaves the log it found followed by
\* exactly N new records, the k-th being the record of the k-th valid row;
\* without a log before, the new log holds exactly these N records.
C2_AppendsValidRows ==
    [][(SubmitStep /\ ValidIdx(transfer_rows) # {}) =>
          LET old == OldRows
              new == transfers_file'.rows
              valid == ValidIdx(transfer_rows)
          IN  /\ transfers_file'.exists
              /\ Len(new) = Len(old) + Cardinality(valid)
              /\ SubSeq(new, 1, Len(old)) = old
              /\ \A i \in valid :
                    FromRow(new[Len(old) + Cardinality({ j \in valid : j <= i })],
                            transfer_rows[i])]_vars

\* C2 witness: the old record is still first, followed by two different new
\* records.
C2_Witness ==
    /\ pc = "display"
    /\ "success" \in messages
    /\ Len(transfers_file.rows) = 3
    /\ transfers_file.rows[1] = OldRecord
    /\ transfers_file.rows[2].FromLocation # transfers_file.rows[3].FromLocation

\* C3: after submit the draft list is exactly one blank row whose source and
\* destination are the first location of the sorted list.
C3_SubmitLeavesOneBlankRow ==
    (pc \in {"display", "done"} /\ "success" \in messages)
        => transfer_rows = <<Blank(FirstLocation, FirstLocation)>>

\* C3 witness: a submit that wrote a record has run and the list is the one
\* blank row.
C3_Witness ==
    /\ pc = "display"
    /\ "success" \in messages
    /\ "warning" \notin messages
    /\ transfers_file.exists
    /\ transfer_rows = <<Blank(<<"A">>, <<"A">>)>>

\* C4: a submit in which no draft row has both a non-empty selection and a
\* quantity > 0 signals a warning and leaves the log file as it was.
C4_WarnsAndWritesNothing ==
    [][(SubmitStep /\ ValidIdx(transfer_rows) = {}) =>
          /\ "warning" \in messages'
          /\ transfers_file' = transfers_file]_vars

\* C5: the auto-add step appends exactly one row, blank and with the last
\* row's source and destination, when the last row has a part selected, and
\* leaves the list alone when it is empty or its last row has none.
C5_AutoAdd ==
    [][pc = "autoadd" =>
          IF transfer_rows # <<>> /\ LastRow.item_selected # EmptyStr
          THEN transfer_rows' = Append(transfer_rows,
                                       Blank(LastRow.from_location,
                                             LastRow.to_location))
          ELSE transfer_rows' = transfer_rows]_vars

\* C5 witness: a row with a part selected and locations other than the
\* defaults is followed by the row auto-added after it.
C5_Witness ==
    /\ pc = "submit"
    /\ Len(transfer_rows) = 2
    /\ transfer_rows[1].item_selected # EmptyStr
    /\ transfer_rows[1].from_location # FirstLocation
    /\ transfer_rows[1].to_location = FirstLocation
    /\ transfer_rows[2] = Blank(transfer_rows[1].from_location, FirstLocation)

\* C6: every call of add_row appends one blank row and keeps the rows before
\* it; on an empty list (session start, or just cleared by submit) the row's
\* locations are the first location, and after a previous row they are that
\* row's.
C6_AddRow ==
    [][/\ (pc \in {"session", "autoadd"} /\ transfer_rows' # transfer_rows) =>
             /\ Len(transfer_rows') = Len(transfer_rows) + 1
             /\ SubSeq(transfer_rows', 1, Len(transfer_rows)) = transfer_rows
             /\ transfer_rows'[Len(transfer_rows')] =
                    IF transfer_rows = <<>>
                    THEN Blank(FirstLocation, FirstLocation)
                    ELSE Blank(LastRow.from_location, LastRow.to_location)
       /\ (pc = "session" /\ transfer_rows = <<>> /\ pc' = "form") =>
             transfer_rows' # transfer_rows
       /\ SubmitStep => transfer_rows' = <<Blank(FirstLocation, FirstLocation)>>]_vars

\* C6 witness: the first pass of a session has added the first row.
C6_Witness ==
    /\ pc = "form"
    /\ idx = 0
    /\ displayed = "none"
    /\ transfer_rows = <<Blank(<<"A">>, <<"A">>)>>

\* The part of the one-part catalogue, its cells as strings.
CodeStr == astype_str(catalogue_file.parts[1].ItemCode)

NameStr == astype_str(catalogue_file.parts[1].ItemName)

\* The code followed by the separator holds the separator only at its end:
\* the code neither contains " - " nor ends with " -".
SeparatorOnlyAfterCode ==
    \A i \in 1..Len(CodeStr) : SubSeq(CodeStr \o SEP, i, i + Len(SEP) - 1) # SEP

\* The record of the row a submit has just written.
NewRecord == transfers_file'.rows[Len(transfers_file'.rows)]

\* The label has no separator in it.
NoSeparator(s) ==
    \A i \in 1..(Len(s) - Len(SEP) + 1) : SubSeq(s, i, i + Len(SEP) - 1) # SEP

\* C7 as claimed: the combined label of every part is split back into its
\* code and name, and a label without separator into itself and "".
C7_LabelRoundTrip ==
    [][SubmitStep =>
          /\ all_parts[1] = CodeStr \o SEP \o NameStr
          /\ transfer_rows[1].item_selected = all_parts[1] =>
                /\ NewRecord.ItemNo = CodeStr
                /\ NewRecord.ItemDescription = NameStr
          /\ NoSeparator(transfer_rows[1].item_selected) =>
                /\ NewRecord.ItemNo = transfer_rows[1].item_selected
                /\ NewRecord.ItemDescription = EmptyStr]_vars

\* C7 as amended: the round trip holds for every part whose code neither
\* contains " - " nor ends with " -".
C7_LabelRoundTripAmended ==
    [][SubmitStep =>
          /\ all_parts[1] = CodeStr \o SEP \o NameStr
          /\ (transfer_rows[1].item_selected = all_parts[1]
                  /\ SeparatorOnlyAfterCode) =>
                /\ NewRecord.ItemNo = CodeStr
                /\ NewRecord.ItemDescription = NameStr
          /\ NoSeparator(transfer_rows[1].item_selected) =>
                /\ NewRecord.ItemNo = transfer_rows[1].item_selected
                /\ NewRecord.ItemDescription = EmptyStr]_vars

\* C7 witness: a part whose name holds the separator has gone through the
\* round trip.
C7_Witness ==
    /\ pc = "display"
    /\ Len(transfers_file.rows) = 1
    /\ CodeStr = <<"A">>
    /\ NameStr = SEP
    /\ transfers_file.rows[1].ItemNo = <<"A">>
    /\ transfers_file.rows[1].ItemDescription = SEP

\* C8: with a reference file or a required column missing, the pass shows an
\* error and halts: the draft list and the log are left as they were, the
\* log is not displayed, and nothing runs until the next pass.
C8_MissingReferenceDataHalts ==
    [][/\ (pc = "load" /\ ReferenceDataMissing) =>
             /\ pc' = "stopped"
             /\ "error" \in messages'
             /\ displayed' = "none"
             /\ UNCHANGED <<transfer_rows, transfers_file>>
       /\ pc = "stopped" =>
             /\ pc' = "load"
             /\ UNCHANGED <<transfer_rows, transfers_file>>]_vars

\* C8 witness: the catalogue lacks a column beside a good locations file and
\* an existing log; the pass has halted with an error.
C8_Witness ==
    /\ pc = "stopped"
    /\ messages = {"error"}
    /\ "Bin Location Description" \in stock_on_hand_file.columns
    /\ catalogue_file.columns = {"ItemCode"}
    /\ transfers_file.exists
    /\ transfer_rows = <<>>
    /\ displayed = "none"

\* The positions (1-based) the delete buttons asked for.
Requested == { rows_to_delete[k] + 1 : k \in 1..Len(rows_to_delete) }

\* C9: the deletion loop removes exactly the rows at the requested
\* positions: the list is shorter by their number and the rows left are the
\* others, unchanged and in their order.
C9_DeletesRequestedRows ==
    [][(pc = "form" /\ pc' = "autoadd") =>
          LET kept == (1..Len(transfer_rows)) \ Requested
          IN  /\ Len(transfer_rows') = Len(transfer_rows) - Cardinality(Requested)
              /\ \A i \in kept :
                    transfer_rows'[Cardinality({ j \in kept : j <= i })]
                        = transfer_rows[i]]_vars

\* C9 witness: the first and the third of three rows were deleted and the
\* second, a filled row, is left.
C9_Witness ==
    /\ pc = "autoadd"
    /\ rows_to_delete = <<0, 2>>
    /\ Len(transfer_rows) = 1
    /\ transfer_rows[1].item_selected # EmptyStr
    /\ transfer_rows[1].quantity = 1

\* C10 as claimed: at the end of a pass the draft list is empty or its last
\* row has no part selected, and the list handed to save_transfers always
\* ends with a row that is filtered out.
C10_LastRowUnselected ==
    /\ pc \in {"display", "done", "load", "session"} =>
          (transfer_rows = <<>> \/ LastRow.item_selected = EmptyStr)
    /\ pc = "submit" =>
          (transfer_rows # <<>> /\ Len(transfer_rows) \notin ValidIdx(transfer_rows))

\* C10 as amended: the list handed to save_transfers is empty or ends with
\* a row that is filtered out.
C10_LastRowUnselectedAmended ==
    /\ pc \in {"display", "done", "load", "session"} =>
          (transfer_rows = <<>> \/ LastRow.item_selected = EmptyStr)
    /\ pc = "submit" =>
          (transfer_rows = <<>> \/ Len(transfer_rows) \notin ValidIdx(transfer_rows))

\* C10 witness: a pass has ended with a selected row followed by the
\* auto-added row.
C10_Witness ==
    /\ pc = "done"
    /\ Len(transfer_rows) = 2
    /\ transfer_rows[1].item_selected # EmptyStr
    /\ transfer_rows[1].quantity = 0
    /\ transfer_rows[2].item_selected = EmptyStr

====
